---- MODULE Spec2Model ----
(***************************************************************************)
(* Model of the lead-generation backend (backend/index.js) and its offline *)
(* scripts (migrateUsersToBusinesses.js, the cleanup script).  The state   *)
(* is the document store (users, businesses, products, leads), the signed  *)
(* tokens handed out to clients, the position of the migration script and  *)
(* the last response produced.  Every HTTP handler is one action.          *)
(***************************************************************************)
EXTENDS Integers, Sequences, FiniteSets, TLC

VARIABLES users, businesses, products, leads, tokens, seedKey, nextId, faults, mig,
          pending, resp

vars == <<users, businesses, products, leads, tokens, seedKey, nextId, faults, mig,
          pending, resp>>

(***************************************************************************)
(* Bounds of the model.                                                    *)
(***************************************************************************)
MaxEmails == 2
\* Store writes that may throw after an earlier write of the same operation
\* has been applied (the faults that leave an operation half done).
MaxFaults == 1
\* Products and leads inserted on top of the initial store.
MaxInserts == 2
\* Requests that may be in flight (suspended at an await) at the same time.
MaxPending == 2

(***************************************************************************)
(* Values.  An ObjectId is a positive integer; Absent is a path that is    *)
(* not set on a document (undefined), Null a path explicitly set to null.  *)
(* Missing / NullStr play the same roles for string-valued paths.          *)
(***************************************************************************)
Absent == 0
Null == -1
Missing == "<undefined>"
NullStr == "<null>"

EmailPool == <<"a@x.com", "b@x.com", "c@x.com", "d@x.com">>
Emails == {EmailPool[i] : i \in 1..MaxEmails}
\* The name a client sends along with each e-mail address (some send none).
NamePool == <<"Acme", Missing, "Bob", Missing>>
NameOf(e) == NamePool[CHOOSE i \in 1..MaxEmails : EmailPool[i] = e]
Passwords == {"pw"}
RoleInputs == {Missing, "business", "customer", "admin"}
SecretKey == "s3cret"
KeyInputs == {Missing, SecretKey, "guess"}

\* The business-only attributes a registration request may carry.
FieldInputs ==
  { [category |-> Missing, location |-> Missing, description |-> Missing],
    [category |-> "Food",  location |-> Missing, description |-> Missing],
    [category |-> "Food",  location |-> "Pune",  description |-> "Shop"] }

\* JavaScript truthiness of a string-valued path.
Truthy(s) == s \notin {Missing, NullStr, ""}
\* a || b
Or(a, b) == IF Truthy(a) THEN a ELSE b
\* { $exists: true }
Exists(s) == s # Missing

Put(f, k, v) == [x \in (DOMAIN f) \cup {k} |-> IF x = k THEN v ELSE f[x]]
Drop(f, k) == [x \in (DOMAIN f) \ {k} |-> f[x]]

\* bcrypt.hash / bcrypt.compare
Hash(pw) == <<"bcrypt", pw>>
Compare(pw, hashed) == hashed = Hash(pw)

(***************************************************************************)
(* Documents.                                                              *)
(***************************************************************************)
UserDoc(name, email, hashed, role) ==
  [name |-> name, email |-> email, password |-> hashed, role |-> role,
   businessId |-> Absent,
   category |-> Missing, location |-> Missing, description |-> Missing]

\* A $unset that names one path only.
UnsetCategoryOnly(u) == [u EXCEPT !.category = Missing]

\* { $unset: { category, location, description } }
UnsetBusinessFields(u) ==
  [u EXCEPT !.category = Missing, !.location = Missing, !.description = Missing]

HasBusinessFields(u) ==
  Exists(u.category) \/ Exists(u.location) \/ Exists(u.description)

\* A filter on the role alone.
LacksBusinessByRole(u) == u.role = "business"

\* { role: 'business', $or: [{businessId: {$exists: false}}, {businessId: null}] }
LacksBusiness(u) == u.role = "business" /\ u.businessId \in {Absent, Null}

FindUserByEmail(us, email) == {u \in DOMAIN us : us[u].email = email}

(***************************************************************************)
(* POST /api/auth/register                                                 *)
(***************************************************************************)
\* delete req.body.category / location / description
SanitizeBody(body) ==
  [body EXCEPT !.category = Missing, !.location = Missing, !.description = Missing]

\* A role default of 'customer'.
EffectiveRoleDefaultCustomer(r) ==
  LET role == Or(r, "customer")
  IN IF role # "business" /\ role # "customer" THEN "business" ELSE role

EffectiveRole(r) ==
  LET role == Or(r, "business")
  IN IF role # "business" /\ role # "customer" THEN "business" ELSE role

\* A User.create that is handed the request body as received.
RegisterUserDocSpread(req, role) ==
  [UserDoc(req.name, req.email, Hash(req.password), role)
     EXCEPT !.category = req.category, !.location = req.location,
            !.description = req.description]

\* The document handed to User.create.
RegisterUserDoc(req, role) == UserDoc(req.name, req.email, Hash(req.password), role)

\* The document handed to Business.create; body is req.body as it is at that point.
RegisterBusinessDoc(req, body, owner) ==
  [name |-> Or(req.name, req.email), owner |-> owner,
   category |-> Or(body.category, ""),
   location |-> Or(body.location, ""),
   description |-> Or(body.description, "")]

\* A save that does not carry the new businessId.
LinkUserForgotten(u, bid) == u

\* user.businessId = biz._id; user.save()
LinkUser(u, bid) == [u EXCEPT !.businessId = bid]

RegisterReqs ==
  { [name |-> NameOf(e), email |-> e, password |-> p, role |-> r,
     category |-> f.category, location |-> f.location, description |-> f.description] :
      e \in Emails, p \in Passwords, r \in RoleInputs, f \in FieldInputs }

\* Registrations that carry neither a role nor business attributes.
PlainRegisterReqs ==
  {req \in RegisterReqs : req.role = Missing /\ ~Exists(req.category)}

NoReq ==
  [name |-> Missing, email |-> Missing, password |-> Missing, role |-> Missing,
   category |-> Missing, location |-> Missing, description |-> Missing]

\* The last response: its status and payload, with the request fields the
\* response answers (echoed on success only).
\* jwt.sign payload
Token(id, role, email, businessId) ==
  [id |-> id, role |-> role, email |-> email, businessId |-> businessId]

\* A request without an Authorization header.
NoToken == Token(Absent, Missing, Missing, Absent)

Resp(op, status, req, uid, bid, n) ==
  [op |-> op, status |-> status, role |-> req.role, category |-> req.category,
   location |-> req.location, description |-> req.description,
   uid |-> uid, bid |-> bid, n |-> n, key |-> Missing,
   caller |-> NoToken, pid |-> Absent, list |-> <<>>]

\* The response to an authenticated request of caller tok about document pid.
AuthResp(op, status, tok, pid, list) ==
  [Resp(op, status, NoReq, Absent, Absent, 0)
     EXCEPT !.caller = tok, !.pid = pid, !.list = list]

IdleMig ==
  [pc |-> "idle", candidates |-> <<>>, found |-> 0, log |-> <<>>, created |-> Absent]

\* The handlers suspended at an await, one per open connection.
IdleConn ==
  [kind |-> "none", pc |-> "idle", req |-> NoReq, role |-> Missing,
   uid |-> Absent, bid |-> Absent]
NoPending == [c \in 1..MaxPending |-> IdleConn]

(***************************************************************************)
(* The store the product and lead endpoints are exercised on: the          *)
(* administrator created by scripts/seedAdmin.js, and behind it the        *)
(* documents of three registrations: a business (user 2, Business 3), a    *)
(* business whose user.save threw (user 4, orphan Business 5) and a        *)
(* customer (user 6).                                                      *)
(***************************************************************************)
AccessReq(i, role) ==
  [NoReq EXCEPT !.name = NamePool[i], !.email = EmailPool[i], !.password = "pw",
                !.role = role]

AccessUsers ==
  <<UserDoc("Admin", "admin@x.com", Hash("pw"), "admin"),
    LinkUser(RegisterUserDoc(AccessReq(1, "business"), "business"), 3),
    <<>>,
    RegisterUserDoc(AccessReq(2, Missing), "business"),
    <<>>,
    UnsetBusinessFields(RegisterUserDoc(AccessReq(3, "customer"), "customer"))>>

AccessBusinesses ==
  <<<<>>, <<>>,
    RegisterBusinessDoc(AccessReq(1, "business"), AccessReq(1, "business"), 2),
    <<>>,
    RegisterBusinessDoc(AccessReq(2, Missing), AccessReq(2, Missing), 4)>>

\* The first id free in that store, and an id that names no document.
FirstFreeId == Len(AccessUsers) + 1
NoSuchId == FirstFreeId + MaxInserts + 1

\* failAt: 0 no store failure; 1 User.create throws; 2 Business.create throws;
\* 3 user.save throws; 4 the User.updateOne $unset throws (caught, line 179).
Register(req, failAt) ==
  LET body == SanitizeBody(req)
      role == EffectiveRole(body.role)
      uid == nextId
      bid == nextId + 1
      user == RegisterUserDoc(req, role)
      biz == RegisterBusinessDoc(req, body, uid)
  IN
  /\ UNCHANGED <<products, leads, tokens, seedKey, pending, mig>>
  /\ IF FindUserByEmail(users, req.email) # {}
     THEN /\ failAt = 0
          /\ resp' = Resp("register", 400, NoReq, Absent, Absent, 0)
          /\ UNCHANGED <<users, businesses, nextId, faults>>
     ELSE IF failAt = 1
     THEN /\ resp' = Resp("register", 500, NoReq, Absent, Absent, 0)
          /\ UNCHANGED <<users, businesses, nextId, faults>>
     ELSE IF role = "business"
     THEN \/ /\ failAt = 2
             /\ faults < MaxFaults
             /\ users' = Put(users, uid, user)
             /\ nextId' = nextId + 1
             /\ faults' = faults + 1
             /\ resp' = Resp("register", 500, NoReq, Absent, Absent, 0)
             /\ UNCHANGED businesses
          \/ /\ failAt = 3
             /\ faults < MaxFaults
             /\ users' = Put(users, uid, user)
             /\ businesses' = Put(businesses, bid, biz)
             /\ nextId' = nextId + 2
             /\ faults' = faults + 1
             /\ resp' = Resp("register", 500, NoReq, Absent, Absent, 0)
          \/ /\ failAt = 0
             /\ users' = Put(users, uid, LinkUser(user, bid))
             /\ businesses' = Put(businesses, bid, biz)
             /\ nextId' = nextId + 2
             /\ resp' = Resp("register", 200, req, uid, bid, 0)
             /\ UNCHANGED faults
     ELSE /\ failAt \in {0, 4}
          /\ users' = Put(users, uid, IF failAt = 4 THEN user ELSE UnsetBusinessFields(user))
          /\ nextId' = nextId + 1
          /\ resp' = Resp("register", 200, req, uid, Absent, 0)
          /\ UNCHANGED <<businesses, faults>>

(***************************************************************************)
(* POST /api/admin/seed                                                    *)
(***************************************************************************)
SeedReqs ==
  { [key |-> k, name |-> IF e = Missing THEN Missing ELSE NameOf(e), email |-> e,
     password |-> p] :
      k \in KeyInputs, e \in Emails \cup {Missing}, p \in Passwords \cup {Missing} }

\* A key check without the guard on an unset SEED_ADMIN_KEY.
SeedKeyAcceptedUnguarded(envKey, key) == key = envKey

\* if (!seedKey) 403; if (!key || key !== seedKey) 403
SeedKeyAccepted(envKey, key) == Truthy(envKey) /\ Truthy(key) /\ key = envKey

SeedUserDoc(req) == UserDoc(Or(req.name, "Admin"), req.email, Hash(req.password), "admin")

\* failAt: 0 no store failure; 1 User.create throws.
Seed(req, failAt) ==
  /\ UNCHANGED <<businesses, products, leads, seedKey, pending, faults, mig>>
  /\ IF ~SeedKeyAccepted(seedKey, req.key)
     THEN /\ failAt = 0
          /\ resp' = Resp("seed", 403, NoReq, Absent, Absent, 0)
          /\ UNCHANGED <<users, tokens, nextId>>
     ELSE IF ~Truthy(req.email) \/ ~Truthy(req.password)
     THEN /\ failAt = 0
          /\ resp' = Resp("seed", 400, NoReq, Absent, Absent, 0)
          /\ UNCHANGED <<users, tokens, nextId>>
     ELSE IF FindUserByEmail(users, req.email) # {}
     THEN /\ failAt = 0
          /\ resp' = Resp("seed", 400, NoReq, Absent, Absent, 0)
          /\ UNCHANGED <<users, tokens, nextId>>
     ELSE IF failAt = 1
     THEN /\ resp' = Resp("seed", 500, NoReq, Absent, Absent, 0)
          /\ UNCHANGED <<users, tokens, nextId>>
     ELSE /\ failAt = 0
          /\ users' = Put(users, nextId, SeedUserDoc(req))
          /\ nextId' = nextId + 1
          /\ tokens' = tokens \cup {Token(nextId, "admin", req.email, Absent)}
          /\ resp' = [Resp("seed", 200, NoReq, nextId, Absent, 0) EXCEPT !.key = req.key]

(***************************************************************************)
(* POST /api/auth/login                                                    *)
(***************************************************************************)
Login(email, password) ==
  /\ UNCHANGED <<users, businesses, products, leads, seedKey, pending, nextId, faults, mig>>
  /\ LET found == FindUserByEmail(users, email)
     IN IF found = {}
        THEN /\ resp' = Resp("login", 400, NoReq, Absent, Absent, 0)
             /\ UNCHANGED tokens
        ELSE LET uid == CHOOSE u \in found : \A v \in found : u <= v
                 user == users[uid]
                 \* JSON carries null and drops undefined
                 tok == Token(uid, user.role, user.email, user.businessId)
             IN IF ~Compare(password, user.password)
                THEN /\ resp' = Resp("login", 400, NoReq, Absent, Absent, 0)
                     /\ UNCHANGED tokens
                ELSE /\ tokens' = tokens \cup {tok}
                     /\ resp' = Resp("login", 200, NoReq, uid, Absent, 0)

(***************************************************************************)
(* Products: /api/business/products                                        *)
(***************************************************************************)
\* String(x) of an ObjectId path: "undefined", "null" or the id's text.
Str(x) ==
  IF x = Absent THEN <<"undefined", 0>>
  ELSE IF x = Null THEN <<"null", 0>>
  ELSE <<"oid", x>>

\* The request bodies of product create and update (sku, description and
\* images are stored as sent and are left out).
ProductInputs ==
  { [name |-> "Widget", price |-> 5, quantity |-> 1],
    [name |-> "Gadget", price |-> 0, quantity |-> 0],
    [name |-> "", price |-> 5, quantity |-> 1],
    [name |-> "Widget", price |-> -1, quantity |-> 1],
    [name |-> "Widget", price |-> 5, quantity |-> -1] }

\* Object.keys(errors).length = 0
ProductValid(in) == Truthy(in.name) /\ in.price >= 0 /\ in.quantity >= 0

\* A check of the caller's role alone.
ProductForbiddenByRole(tok, p) == tok.role \notin {"admin", "business"}

\* req.user.role !== 'admin' && String(p.businessId) !== String(req.user.businessId)
ProductForbidden(tok, p) ==
  tok.role # "admin" /\ Str(p.businessId) # Str(tok.businessId)

\* failAt: 0 no store failure; 1 Product.create throws.
CreateProduct(tok, in, businessId, failAt) ==
  /\ UNCHANGED <<users, businesses, leads, tokens, seedKey, pending, faults, mig>>
  /\ LET bid == IF tok.role = "business" THEN tok.businessId ELSE businessId
     IN IF tok = NoToken
        THEN /\ failAt = 0
             /\ resp' = Resp("createProduct", 401, NoReq, Absent, Absent, 0)
             /\ UNCHANGED <<products, nextId>>
        ELSE IF ~ProductValid(in) \/ bid \in {Absent, Null}
        THEN /\ failAt = 0
             /\ resp' = AuthResp("createProduct", 400, tok, Absent, <<>>)
             /\ UNCHANGED <<products, nextId>>
        ELSE IF tok.role \notin {"business", "admin"}
        THEN /\ failAt = 0
             /\ resp' = AuthResp("createProduct", 403, tok, Absent, <<>>)
             /\ UNCHANGED <<products, nextId>>
        ELSE IF failAt = 1
        THEN /\ resp' = AuthResp("createProduct", 500, tok, Absent, <<>>)
             /\ UNCHANGED <<products, nextId>>
        ELSE /\ nextId < FirstFreeId + MaxInserts
             /\ products' = Put(products, nextId,
                                [name |-> in.name, price |-> in.price,
                                 quantity |-> in.quantity, businessId |-> bid])
             /\ nextId' = nextId + 1
             /\ resp' = AuthResp("createProduct", 200, tok, nextId, <<>>)

\* failAt: 0 no store failure; 1 p.save throws.
UpdateProduct(tok, pid, in, failAt) ==
  /\ UNCHANGED <<users, businesses, leads, tokens, seedKey, pending, nextId, faults, mig>>
  /\ IF tok = NoToken
     THEN /\ failAt = 0
          /\ resp' = Resp("updateProduct", 401, NoReq, Absent, Absent, 0)
          /\ UNCHANGED products
     ELSE IF pid \notin DOMAIN products
     THEN /\ failAt = 0
          /\ resp' = AuthResp("updateProduct", 404, tok, pid, <<>>)
          /\ UNCHANGED products
     ELSE IF ProductForbidden(tok, products[pid])
     THEN /\ failAt = 0
          /\ resp' = AuthResp("updateProduct", 403, tok, pid, <<>>)
          /\ UNCHANGED products
     ELSE IF ~ProductValid(in)
     THEN /\ failAt = 0
          /\ resp' = AuthResp("updateProduct", 400, tok, pid, <<>>)
          /\ UNCHANGED products
     ELSE IF failAt = 1
     THEN /\ resp' = AuthResp("updateProduct", 500, tok, pid, <<>>)
          /\ UNCHANGED products
     ELSE /\ products' = [products EXCEPT ![pid].name = in.name, ![pid].price = in.price,
                                          ![pid].quantity = in.quantity]
          /\ resp' = AuthResp("updateProduct", 200, tok, pid, <<>>)

\* failAt: 0 no store failure; 1 Product.findByIdAndDelete throws.
DeleteProduct(tok, pid, failAt) ==
  /\ UNCHANGED <<users, businesses, leads, tokens, seedKey, pending, nextId, faults, mig>>
  /\ IF tok = NoToken
     THEN /\ failAt = 0
          /\ resp' = Resp("deleteProduct", 401, NoReq, Absent, Absent, 0)
          /\ UNCHANGED products
     ELSE IF pid \notin DOMAIN products
     THEN /\ failAt = 0
          /\ resp' = AuthResp("deleteProduct", 404, tok, pid, <<>>)
          /\ UNCHANGED products
     ELSE IF ProductForbidden(tok, products[pid])
     THEN /\ failAt = 0
          /\ resp' = AuthResp("deleteProduct", 403, tok, pid, <<>>)
          /\ UNCHANGED products
     ELSE IF failAt = 1
     THEN /\ resp' = AuthResp("deleteProduct", 500, tok, pid, <<>>)
          /\ UNCHANGED products
     ELSE /\ products' = Drop(products, pid)
          /\ resp' = AuthResp("deleteProduct", 200, tok, pid, <<>>)

(***************************************************************************)
(* Leads: /api/leads                                                       *)
(***************************************************************************)
PhoneInputs == {Missing, "555"}

\* failAt: 0 no store failure; 1 Lead.create throws.  The lead's timestamp is
\* the store's insertion counter, which grows with every insert as the clock does.
CreateLead(tok, phone, businessId, failAt) ==
  /\ UNCHANGED <<users, businesses, products, tokens, seedKey, pending, faults, mig>>
  /\ IF tok = NoToken
     THEN /\ failAt = 0
          /\ resp' = Resp("createLead", 401, NoReq, Absent, Absent, 0)
          /\ UNCHANGED <<leads, nextId>>
     ELSE IF ~Truthy(phone) \/ ~Truthy(tok.email)
     THEN /\ failAt = 0
          /\ resp' = AuthResp("createLead", 400, tok, Absent, <<>>)
          /\ UNCHANGED <<leads, nextId>>
     ELSE IF failAt = 1
     THEN /\ resp' = AuthResp("createLead", 500, tok, Absent, <<>>)
          /\ UNCHANGED <<leads, nextId>>
     ELSE /\ nextId < FirstFreeId + MaxInserts
          /\ leads' = Put(leads, nextId,
                          [email |-> tok.email, phone |-> phone, businessId |-> businessId,
                           timestamp |-> nextId, submittedBy |-> tok.id])
          /\ nextId' = nextId + 1
          /\ resp' = AuthResp("createLead", 200, tok, nextId, <<>>)

RECURSIVE NewestFirst(_, _)
\* .sort({ timestamp: -1 }) of the leads whose ids are in ids.
NewestFirst(ls, ids) ==
  IF ids = {} THEN <<>>
  ELSE LET m == CHOOSE x \in ids : \A y \in ids : ls[x].timestamp >= ls[y].timestamp
       IN <<m>> \o NewestFirst(ls, ids \ {m})

\* The same with a customer query that lost its submittedBy filter.
LeadsVisibleUnfiltered(tok, ls) ==
  IF tok.role = "admin" THEN DOMAIN ls
  ELSE IF tok.role = "business"
  THEN IF tok.businessId \in {Absent, Null} THEN {}
       ELSE {l \in DOMAIN ls : ls[l].businessId = tok.businessId}
  ELSE DOMAIN ls

\* The query each role's branch of GET /api/leads runs.
LeadsVisible(tok, ls) ==
  IF tok.role = "admin" THEN DOMAIN ls
  ELSE IF tok.role = "business"
  THEN IF tok.businessId \in {Absent, Null} THEN {}
       ELSE {l \in DOMAIN ls : ls[l].businessId = tok.businessId}
  ELSE {l \in DOMAIN ls : ls[l].submittedBy = tok.id}

\* failAt: 0 no store failure; 1 Lead.find throws.
GetLeads(tok, failAt) ==
  /\ UNCHANGED <<users, businesses, products, leads, tokens, seedKey, pending, nextId,
                 faults, mig>>
  /\ IF tok = NoToken
     THEN /\ failAt = 0
          /\ resp' = Resp("getLeads", 401, NoReq, Absent, Absent, 0)
     ELSE IF failAt = 1
     THEN resp' = AuthResp("getLeads", 500, tok, Absent, <<>>)
     ELSE resp' = AuthResp("getLeads", 200, tok, Absent,
                           NewestFirst(leads, LeadsVisible(tok, leads)))

(***************************************************************************)
(* scripts/migrateUsersToBusinesses.js                                     *)
(***************************************************************************)
(* DELETE /api/admin/businesses/:id                                        *)
(***************************************************************************)
\* User.updateOne({ businessId: id }, { $unset: { businessId: '' } }): the
\* first User whose businessId is id loses the field; the others are kept.
UnlinkNone(us, id) == us
UnlinkOne(us, id) ==
  LET linked == {u \in DOMAIN us : us[u].businessId = id}
  IN IF linked = {} THEN us
     ELSE LET first == CHOOSE u \in linked : \A v \in linked : u <= v
          IN [us EXCEPT ![first].businessId = Absent]

\* failAt: 0 no store failure; 1 findByIdAndDelete throws; 2 User.updateOne
\* throws after the Business is gone.  Products and Leads are never touched.
AdminDeleteBusiness(tok, id, failAt) ==
  /\ UNCHANGED <<products, leads, tokens, seedKey, pending, nextId, mig>>
  /\ IF tok = NoToken
     THEN /\ failAt = 0
          /\ resp' = Resp("deleteBusiness", 401, NoReq, Absent, Absent, 0)
          /\ UNCHANGED <<users, businesses, faults>>
     ELSE IF tok.role # "admin"
     THEN /\ failAt = 0
          /\ resp' = [AuthResp("deleteBusiness", 403, tok, Absent, <<>>) EXCEPT !.bid = id]
          /\ UNCHANGED <<users, businesses, faults>>
     ELSE IF failAt = 1
     THEN /\ resp' = [AuthResp("deleteBusiness", 500, tok, Absent, <<>>) EXCEPT !.bid = id]
          /\ UNCHANGED <<users, businesses, faults>>
     ELSE IF id \notin DOMAIN businesses
     THEN /\ failAt = 0
          /\ resp' = [AuthResp("deleteBusiness", 404, tok, Absent, <<>>) EXCEPT !.bid = id]
          /\ UNCHANGED <<users, businesses, faults>>
     ELSE IF failAt = 2
     THEN /\ faults < MaxFaults
          /\ businesses' = Drop(businesses, id)
          /\ faults' = faults + 1
          /\ resp' = [AuthResp("deleteBusiness", 500, tok, Absent, <<>>) EXCEPT !.bid = id]
          /\ UNCHANGED users
     ELSE /\ businesses' = Drop(businesses, id)
          /\ users' = UnlinkOne(users, id)
          /\ resp' = [AuthResp("deleteBusiness", 200, tok, Absent, <<>>) EXCEPT !.bid = id]
          /\ UNCHANGED faults

(***************************************************************************)
RECURSIVE InIdOrder(_)
\* The ids of a set of documents in the store's natural (insertion) order.
InIdOrder(ids) ==
  IF ids = {} THEN <<>>
  ELSE LET m == CHOOSE x \in ids : \A y \in ids : x <= y
       IN <<m>> \o InIdOrder(ids \ {m})

\* User.find({ role: 'business', $or: [...] }).lean(): snapshots of the documents.
Candidates(us) ==
  LET ids == InIdOrder({u \in DOMAIN us : LacksBusiness(us[u])})
  IN [i \in 1..Len(ids) |-> [id |-> ids[i], doc |-> us[ids[i]]]]

\* A synthesised Business without its owner.
MigrationDocOwnerless(c) ==
  [name |-> Or(Or(c.doc.name, c.doc.email), "Unnamed Business"), owner |-> Absent,
   category |-> Or(c.doc.category, ""),
   location |-> Or(c.doc.location, ""),
   description |-> Or(c.doc.description, "")]

\* The Business synthesised for candidate c.
MigrationDoc(c) ==
  [name |-> Or(Or(c.doc.name, c.doc.email), "Unnamed Business"), owner |-> c.id,
   category |-> Or(c.doc.category, ""),
   location |-> Or(c.doc.location, ""),
   description |-> Or(c.doc.description, "")]

\* User.updateOne({ _id }, { $set: { businessId } })
SetBusinessId(us, uid, bid) ==
  IF uid \in DOMAIN us THEN [us EXCEPT ![uid].businessId = bid] ELSE us

MigScan ==
  /\ mig.pc = "idle"
  /\ mig' = [pc |-> "loop", candidates |-> Candidates(users),
             found |-> Len(Candidates(users)), log |-> <<>>, created |-> Absent]
  /\ UNCHANGED <<users, businesses, products, leads, tokens, seedKey, pending, nextId,
                 faults, resp>>

\* What is left of the batch after one iteration: the try/catch sits inside
\* the for loop, so a caught failure moves on to the next candidate.
RestOfBatchAborted(candidates, failAt) ==
  IF failAt = 0 THEN Tail(candidates) ELSE <<>>
RestOfBatch(candidates, failAt) == Tail(candidates)

\* The line the iteration writes to the console: console.log on success,
\* console.error in the catch block.
LogLine(c, failAt) == [c |-> c, ok |-> (failAt = 0)]

\* One iteration of the for loop.  failAt: 0 no store failure; 1 Business.create
\* throws; 2 User.updateOne throws.  Either failure is caught and logged.
MigStep(failAt) ==
  /\ mig.pc = "loop"
  /\ mig.candidates # <<>>
  /\ LET c == Head(mig.candidates)
         bid == nextId
     IN \/ /\ failAt = 1
           /\ UNCHANGED <<users, businesses, nextId, faults>>
        \/ /\ failAt = 2
           /\ faults < MaxFaults
           /\ businesses' = Put(businesses, bid, MigrationDoc(c))
           /\ nextId' = nextId + 1
           /\ faults' = faults + 1
           /\ UNCHANGED users
        \/ /\ failAt = 0
           /\ businesses' = Put(businesses, bid, MigrationDoc(c))
           /\ users' = SetBusinessId(users, c.id, bid)
           /\ nextId' = nextId + 1
           /\ UNCHANGED faults
  /\ mig' = [mig EXCEPT !.candidates = RestOfBatch(mig.candidates, failAt),
                        !.log = Append(mig.log, LogLine(Head(mig.candidates), failAt))]
  /\ UNCHANGED <<products, leads, tokens, seedKey, pending, resp>>

\* The loop is over: disconnect, the process exits.
MigDone ==
  /\ mig.pc = "loop"
  /\ mig.candidates = <<>>
  /\ mig' = IdleMig
  /\ UNCHANGED <<users, businesses, products, leads, tokens, seedKey, pending, nextId,
                 faults, resp>>

(***************************************************************************)
(* The cleanup script (scripts/cleanupUserBusinessFields)                  *)
(***************************************************************************)
\* The filter of the updateMany.
CleanupMatches(u) == HasBusinessFields(u)

\* User.updateMany(filter, { $unset: ... }) on the whole collection.
CleanupUsers(us) ==
  [u \in DOMAIN us |-> IF CleanupMatches(us[u]) THEN UnsetBusinessFields(us[u]) ELSE us[u]]

MatchedCount(us) == Cardinality({u \in DOMAIN us : CleanupMatches(us[u])})

\* failAt: 0 the update succeeds (exit status 0); 1 it throws (exit status 1).
Cleanup(failAt) ==
  /\ UNCHANGED <<businesses, products, leads, tokens, seedKey, pending, nextId, faults, mig>>
  /\ \/ /\ failAt = 0
        /\ users' = CleanupUsers(users)
        /\ resp' = Resp("cleanup", 0, NoReq, Absent, Absent, MatchedCount(users))
     \/ /\ failAt = 1
        /\ resp' = Resp("cleanup", 1, NoReq, Absent, Absent, 0)
        /\ UNCHANGED users

(***************************************************************************)
(* Initial states: the store as the deployment finds it.  Legacy documents  *)
(* are the ones the two scripts exist for: business users without a        *)
(* Business, and users carrying business attributes.                        *)
(***************************************************************************)
(* The same handlers, one store operation at a time.  Each await of a       *)
(* handler hands control back to the event loop, so between two store      *)
(* operations of one request any other request, or the migration script,   *)
(* may run.  No store operation fails here.                                 *)
(***************************************************************************)
Conns == 1..MaxPending

\* register up to User.findOne (line 151): 400 when the e-mail is taken,
\* otherwise the handler goes on to User.create.
RegFind(c, req) ==
  /\ pending[c] = IdleConn
  /\ IF FindUserByEmail(users, req.email) # {}
     THEN /\ resp' = Resp("register", 400, NoReq, Absent, Absent, 0)
          /\ UNCHANGED pending
     ELSE /\ pending' = [pending EXCEPT ![c] =
                          [IdleConn EXCEPT !.kind = "register", !.pc = "create", !.req = req,
                                           !.role = EffectiveRole(SanitizeBody(req).role)]]
          /\ UNCHANGED resp
  /\ UNCHANGED <<users, businesses, products, leads, tokens, seedKey, nextId, faults, mig>>

\* User.create (line 156).
RegCreateUser(c) ==
  /\ pending[c].kind = "register" /\ pending[c].pc = "create"
  /\ users' = Put(users, nextId, RegisterUserDoc(pending[c].req, pending[c].role))
  /\ nextId' = nextId + 1
  /\ pending' = [pending EXCEPT ![c].uid = nextId,
                                ![c].pc = IF pending[c].role = "business" THEN "biz" ELSE "unset"]
  /\ UNCHANGED <<businesses, products, leads, tokens, seedKey, faults, mig, resp>>

\* Business.create (lines 160-166).
RegCreateBusiness(c) ==
  /\ pending[c].kind = "register" /\ pending[c].pc = "biz"
  /\ businesses' = Put(businesses, nextId,
                       RegisterBusinessDoc(pending[c].req, SanitizeBody(pending[c].req),
                                           pending[c].uid))
  /\ nextId' = nextId + 1
  /\ pending' = [pending EXCEPT ![c].bid = nextId, ![c].pc = "save"]
  /\ UNCHANGED <<users, products, leads, tokens, seedKey, faults, mig, resp>>

\* user.businessId = biz._id; user.save(); res.json (lines 168-171).  save()
\* writes the modified path, businessId, whatever the stored document holds.
RegSaveLink(c) ==
  /\ pending[c].kind = "register" /\ pending[c].pc = "save"
  /\ users' = [users EXCEPT ![pending[c].uid] = LinkUser(@, pending[c].bid)]
  /\ resp' = Resp("register", 200, pending[c].req, pending[c].uid, pending[c].bid, 0)
  /\ pending' = [pending EXCEPT ![c] = IdleConn]
  /\ UNCHANGED <<businesses, products, leads, tokens, seedKey, nextId, faults, mig>>

\* The customer branch: User.updateOne $unset, res.json (lines 174-183).
RegUnset(c) ==
  /\ pending[c].kind = "register" /\ pending[c].pc = "unset"
  /\ users' = [users EXCEPT ![pending[c].uid] = UnsetBusinessFields(@)]
  /\ resp' = Resp("register", 200, pending[c].req, pending[c].uid, Absent, 0)
  /\ pending' = [pending EXCEPT ![c] = IdleConn]
  /\ UNCHANGED <<businesses, products, leads, tokens, seedKey, nextId, faults, mig>>

\* seed up to User.findOne (lines 238-246).
SeedFind(c, req) ==
  /\ pending[c] = IdleConn
  /\ IF ~SeedKeyAccepted(seedKey, req.key)
     THEN /\ resp' = Resp("seed", 403, NoReq, Absent, Absent, 0)
          /\ UNCHANGED pending
     ELSE IF ~Truthy(req.email) \/ ~Truthy(req.password)
     THEN /\ resp' = Resp("seed", 400, NoReq, Absent, Absent, 0)
          /\ UNCHANGED pending
     ELSE IF FindUserByEmail(users, req.email) # {}
     THEN /\ resp' = Resp("seed", 400, NoReq, Absent, Absent, 0)
          /\ UNCHANGED pending
     ELSE /\ pending' = [pending EXCEPT ![c] =
                          [IdleConn EXCEPT !.kind = "seed", !.pc = "create", !.req = req,
                                           !.role = "admin"]]
          /\ UNCHANGED resp
  /\ UNCHANGED <<users, businesses, products, leads, tokens, seedKey, nextId, faults, mig>>

\* User.create of the administrator, jwt.sign, res.json (lines 249-253).
SeedCreateUser(c) ==
  /\ pending[c].kind = "seed" /\ pending[c].pc = "create"
  /\ users' = Put(users, nextId, SeedUserDoc(pending[c].req))
  /\ nextId' = nextId + 1
  /\ tokens' = tokens \cup {Token(nextId, "admin", pending[c].req.email, Absent)}
  /\ resp' = [Resp("seed", 200, NoReq, nextId, Absent, 0) EXCEPT !.key = pending[c].req.key]
  /\ pending' = [pending EXCEPT ![c] = IdleConn]
  /\ UNCHANGED <<businesses, products, leads, seedKey, faults, mig>>

\* One iteration of the migration loop up to Business.create (line 31).
MigCreateBusiness ==
  /\ mig.pc = "loop"
  /\ mig.candidates # <<>>
  /\ businesses' = Put(businesses, nextId, MigrationDoc(Head(mig.candidates)))
  /\ nextId' = nextId + 1
  /\ mig' = [mig EXCEPT !.pc = "link", !.created = nextId]
  /\ UNCHANGED <<users, products, leads, tokens, seedKey, pending, faults, resp>>

\* The rest of the iteration: User.updateOne and the console line (32-33).
MigLinkUser ==
  /\ mig.pc = "link"
  /\ users' = SetBusinessId(users, Head(mig.candidates).id, mig.created)
  /\ mig' = [mig EXCEPT !.pc = "loop", !.created = Absent,
                        !.candidates = RestOfBatch(mig.candidates, 0),
                        !.log = Append(mig.log, LogLine(Head(mig.candidates), 0))]
  /\ UNCHANGED <<businesses, products, leads, tokens, seedKey, pending, nextId, faults, resp>>

(***************************************************************************)
LegacyUser(role, name, bizId, cat, loc, desc) ==
  [name |-> name, email |-> "old@x.com", password |-> Hash("pw"), role |-> role,
   businessId |-> bizId, category |-> cat, location |-> loc, description |-> desc]

LegacyStores ==
  { <<>>,
    <<LegacyUser("business", "Old Shop", Absent, "Food", Missing, NullStr)>>,
    <<LegacyUser("business", Missing, Null, Missing, Missing, Missing)>>,
    <<LegacyUser("customer", "Cara", Absent, Missing, "Pune", Missing)>>,
    <<LegacyUser("business", "Old Shop", Absent, "Food", Missing, NullStr),
      [LegacyUser("business", Missing, Null, Missing, Missing, Missing)
         EXCEPT !.email = "older@x.com"]>> }

NoResp == Resp("none", 0, NoReq, Absent, Absent, 0)

Init ==
  /\ users \in LegacyStores
  /\ businesses = <<>>
  /\ products = <<>>
  /\ leads = <<>>
  /\ tokens = {}
  /\ seedKey \in {Missing, SecretKey}
  /\ nextId = Len(users) + 1
  /\ faults = 0
  /\ mig = IdleMig
  /\ pending = NoPending
  /\ resp = NoResp

\* The public endpoints that create users, and the cleanup script.
Next ==
  \/ \E req \in RegisterReqs, failAt \in 0..4 : Register(req, failAt)
  \/ \E req \in SeedReqs, failAt \in 0..1 : Seed(req, failAt)
  \/ \E failAt \in 0..1 : Cleanup(failAt)

\* Registration and the migration script, which is run offline: the server
\* takes no request while the script is between its scan and its exit.
NextMig ==
  \/ /\ mig.pc = "idle"
     /\ \E req \in PlainRegisterReqs, failAt \in 0..4 : Register(req, failAt)
  \/ MigScan
  \/ \E failAt \in 0..2 : MigStep(failAt)
  \/ MigDone

Spec == Init /\ [][Next]_vars

\* The product and lead endpoints start from the store described at AccessUsers.
InitAccess ==
  /\ users = [u \in {1, 2, 4, 6} |-> AccessUsers[u]]
  /\ businesses = [b \in {3, 5} |-> AccessBusinesses[b]]
  /\ products = <<>>
  /\ leads = <<>>
  /\ tokens = {}
  /\ seedKey = Missing
  /\ nextId = FirstFreeId
  /\ faults = 0
  /\ mig = IdleMig
  /\ pending = NoPending
  /\ resp = NoResp

AccessLogin ==
  \E e \in {users[u].email : u \in DOMAIN users} \cup {"nobody@x.com"},
     p \in Passwords \cup {"bad"} : Login(e, p)

\* Login and the token-guarded product endpoints.
NextProducts ==
  \/ AccessLogin
  \/ \E tok \in tokens \cup {NoToken}, in \in ProductInputs,
        b \in (DOMAIN businesses) \cup {Absent}, failAt \in 0..1 :
          CreateProduct(tok, in, b, failAt)
  \/ \E tok \in tokens \cup {NoToken}, pid \in (DOMAIN products) \cup {NoSuchId},
        in \in ProductInputs, failAt \in 0..1 : UpdateProduct(tok, pid, in, failAt)
  \/ \E tok \in tokens \cup {NoToken}, pid \in (DOMAIN products) \cup {NoSuchId},
        failAt \in 0..1 : DeleteProduct(tok, pid, failAt)

SpecProducts == InitAccess /\ [][NextProducts]_vars

\* Login and the token-guarded lead endpoints.
NextLeads ==
  \/ AccessLogin
  \/ \E tok \in tokens \cup {NoToken}, ph \in PhoneInputs,
        b \in (DOMAIN businesses) \cup {Absent}, failAt \in 0..1 :
          CreateLead(tok, ph, b, failAt)
  \/ \E tok \in tokens \cup {NoToken}, failAt \in 0..1 : GetLeads(tok, failAt)

SpecLeads == InitAccess /\ [][NextLeads]_vars

\* The admin's business deletion next to the endpoints that attach Products
\* and Leads to a Business; the admin and the owner of Business 3 log in.
NextAdmin ==
  \/ \E e \in {users[1].email, users[2].email} : Login(e, "pw")
  \/ \E tok \in tokens, in \in ProductInputs, b \in (DOMAIN businesses) \cup {Absent} :
        CreateProduct(tok, in, b, 0)
  \/ \E tok \in tokens, ph \in PhoneInputs, b \in (DOMAIN businesses) \cup {Absent} :
        CreateLead(tok, ph, b, 0)
  \/ \E tok \in tokens \cup {NoToken}, id \in (DOMAIN businesses) \cup {NoSuchId},
        failAt \in 0..2 : AdminDeleteBusiness(tok, id, failAt)

SpecAdmin == InitAccess /\ [][NextAdmin]_vars

\* Registrations of either role that carry no business attributes.
SignupReqs == {req \in RegisterReqs : req.role \in {Missing, "customer"} /\ ~Exists(req.category)}

\* Registrations and admin seeds whose store operations interleave.
NextSignup ==
  \/ \E c \in Conns, req \in SignupReqs : RegFind(c, req)
  \/ \E c \in Conns : RegCreateUser(c)
  \/ \E c \in Conns : RegCreateBusiness(c)
  \/ \E c \in Conns : RegSaveLink(c)
  \/ \E c \in Conns : RegUnset(c)
  \/ \E c \in Conns, req \in SeedReqs : SeedFind(c, req)
  \/ \E c \in Conns : SeedCreateUser(c)

InitSignup ==
  /\ Init
  /\ seedKey = SecretKey
  /\ users = <<>>

SpecSignup == InitSignup /\ [][NextSignup]_vars

\* The product endpoints used with tokens that were issued before the admin
\* deleted a Business; the admin and the owner of Business 3 log in.
NextStale ==
  \/ \E e \in {users[1].email, users[2].email} : Login(e, "pw")
  \/ \E tok \in tokens, in \in ProductInputs, b \in (DOMAIN businesses) \cup {Absent} :
        CreateProduct(tok, in, b, 0)
  \/ \E tok \in tokens, pid \in (DOMAIN products) \cup {NoSuchId}, in \in ProductInputs :
        UpdateProduct(tok, pid, in, 0)
  \/ \E tok \in tokens, pid \in (DOMAIN products) \cup {NoSuchId} :
        DeleteProduct(tok, pid, 0)
  \/ \E tok \in tokens \cup {NoToken}, id \in (DOMAIN businesses) \cup {NoSuchId},
        failAt \in 0..2 : AdminDeleteBusiness(tok, id, failAt)

SpecStale == InitAccess /\ [][NextStale]_vars

InitMig == Init /\ seedKey = Missing

\* The migration script running next to live business registrations, one
\* registration in flight at a time, every store operation a step of its own.
NextRace ==
  \/ /\ pending = NoPending
     /\ \E c \in Conns, req \in PlainRegisterReqs : RegFind(c, req)
  \/ \E c \in Conns : RegCreateUser(c)
  \/ \E c \in Conns : RegCreateBusiness(c)
  \/ \E c \in Conns : RegSaveLink(c)
  \/ MigScan
  \/ MigCreateBusiness
  \/ MigLinkUser
  \/ MigDone

SpecRace == InitMig /\ [][NextRace]_vars

SpecMig == InitMig /\ [][NextMig]_vars
\* The migration script and the registrations of one new client.
NextRepair ==
  \/ /\ mig.pc = "idle"
     /\ \E req \in {r \in PlainRegisterReqs : r.email = EmailPool[1]}, failAt \in 0..4 :
          Register(req, failAt)
  \/ MigScan
  \/ \E failAt \in 0..2 : MigStep(failAt)
  \/ MigDone

\* The migration script is run again and again, and a candidate's two store
\* writes succeed in the end.
SpecRepair ==
  /\ InitMig
  /\ [][NextRepair]_vars
  /\ WF_vars(MigScan)
  /\ WF_vars(MigDone)
  /\ SF_vars(MigStep(0))

(***************************************************************************)
(* Properties of registration, seeding and cleanup (checked under Spec).   *)
(***************************************************************************)
RegisterOk == resp.op = "register" /\ resp.status = 200

\* C1: after a successful registration whose stored role is business, the
\* persisted User has a non-null businessId, that businessId identifies an
\* existing Business, and that Business's owner is the User's id.
C1_RegisteredBusinessLinked ==
  (RegisterOk /\ users[resp.uid].role = "business") =>
    LET bid == users[resp.uid].businessId
    IN /\ bid \notin {Absent, Null}
       /\ bid \in DOMAIN businesses
       /\ businesses[bid].owner = resp.uid

C1_Witness ==
  /\ RegisterOk
  /\ users[resp.uid].role = "business"
  /\ resp.bid \in DOMAIN businesses
  /\ users[resp.uid].businessId = resp.bid

\* C2: the Business created by a registration stores the category, location
\* and description the request carried, and the empty string for a field the
\* request omitted.
C2_BusinessKeepsRequestFields ==
  (RegisterOk /\ resp.bid \in DOMAIN businesses) =>
    /\ businesses[resp.bid].category = (IF Exists(resp.category) THEN resp.category ELSE "")
    /\ businesses[resp.bid].location = (IF Exists(resp.location) THEN resp.location ELSE "")
    /\ businesses[resp.bid].description =
         (IF Exists(resp.description) THEN resp.description ELSE "")

\* C3: a successful registration stores role business when the role is
\* omitted and role customer when customer is asked for; it creates exactly
\* one Business when the stored role is business, and otherwise creates none
\* and leaves the User's businessId absent.
C3_BusinessIffRoleBusiness ==
  [][ (resp'.op = "register" /\ resp'.status = 200 /\ resp'.uid \notin DOMAIN users) =>
        LET u == users'[resp'.uid]
            created == (DOMAIN businesses') \ (DOMAIN businesses)
        IN /\ (resp'.role = Missing => u.role = "business")
           /\ (resp'.role = "customer" => u.role = "customer")
           /\ IF u.role = "business"
              THEN Cardinality(created) = 1
              ELSE created = {} /\ u.businessId = Absent ]_vars

C3_Witness ==
  /\ RegisterOk
  /\ resp.role = Missing
  /\ users[resp.uid].role = "business"
  /\ Cardinality({b \in DOMAIN businesses : businesses[b].owner = resp.uid}) = 1

\* C4: a User registered with a role other than business carries none of
\* category, location, description once the registration has completed,
\* whatever the request body contained.
C4_NoBusinessFieldsOnCustomer ==
  (RegisterOk /\ users[resp.uid].role # "business") =>
    ~HasBusinessFields(users[resp.uid])

C4_Witness ==
  /\ RegisterOk
  /\ users[resp.uid].role = "customer"
  /\ resp.category = "Food"
  /\ ~HasBusinessFields(users[resp.uid])

\* C8: when a cleanup run has completed no User document has category,
\* location or description present, and a run that directly follows a
\* completed run matches zero documents and changes nothing.
C8_CleanupIdempotent ==
  [][ (resp'.op = "cleanup" /\ resp'.status = 0) =>
        /\ \A u \in DOMAIN users' : ~HasBusinessFields(users'[u])
        /\ (resp.op = "cleanup" /\ resp.status = 0) =>
              (resp'.n = 0 /\ users' = users) ]_vars

\* A run that matched nothing although the store started with a document
\* that carried business attributes: an earlier run removed them.
C8_Witness ==
  /\ resp.op = "cleanup" /\ resp.status = 0 /\ resp.n = 0
  /\ \E u \in DOMAIN users :
       users[u].name \in {"Old Shop", "Cara"} /\ ~HasBusinessFields(users[u])

\* C9: a step that adds a User with role admin is a seed request answered
\* 200 whose key equals the configured, set secret; no step changes the role
\* of an existing User.
C9_AdminOnlyBySeed ==
  [][ /\ \A u \in (DOMAIN users') \ (DOMAIN users) :
           users'[u].role = "admin" =>
             /\ resp'.op = "seed" /\ resp'.status = 200
             /\ seedKey # Missing /\ resp'.key = seedKey
      /\ \A u \in DOMAIN users : u \in DOMAIN users' /\ users'[u].role = users[u].role
      /\ (resp'.op = "register" /\ resp'.status = 200) =>
           users'[resp'.uid].role \in {"business", "customer"} ]_vars

C9_Witness ==
  /\ resp.op = "seed" /\ resp.status = 200
  /\ resp.key = seedKey
  /\ users[resp.uid].role = "admin"

(***************************************************************************)
(* Properties of the token-guarded endpoints.                              *)
(***************************************************************************)
\* The ownership rule: admin, or a business whose businessId is the record's.
MayChange(tok, p) ==
  tok.role = "admin" \/ (tok.role = "business" /\ p.businessId = tok.businessId)

\* C5 (under SpecProducts): an update or delete request of an authenticated
\* caller about an existing Product changes the products only if the caller
\* is admin or a business whose businessId is the Product's; for every other
\* caller the response is 403 and the products are unchanged.
C5_ProductChangeNeedsOwnership ==
  [][ /\ (/\ resp'.op \in {"updateProduct", "deleteProduct"}
          /\ resp'.caller # NoToken
          /\ resp'.pid \in DOMAIN products
          /\ ~MayChange(resp'.caller, products[resp'.pid]))
         => (resp'.status = 403 /\ products' = products)
      /\ (resp'.op \in {"updateProduct", "deleteProduct"} /\ products' # products)
         => /\ resp'.pid \in DOMAIN products
            /\ MayChange(resp'.caller, products[resp'.pid]) ]_vars

\* A business caller was refused on a Product of another business.
C5_Witness ==
  /\ resp.op = "updateProduct" /\ resp.status = 403
  /\ resp.caller.role = "business"
  /\ resp.caller.businessId \in DOMAIN businesses
  /\ resp.pid \in DOMAIN products
  /\ products[resp.pid].businessId # resp.caller.businessId

\* C6 (under SpecLeads): GET /api/leads answers an admin with all Leads, a
\* business with exactly the Leads of its own businessId (none when it has
\* no businessId) and any other caller with exactly the Leads it submitted.
C6_LeadsByRole ==
  (resp.op = "getLeads" /\ resp.status = 200) =>
    LET got == {resp.list[i] : i \in 1..Len(resp.list)}
        tok == resp.caller
    IN /\ Len(resp.list) = Cardinality(got)
       /\ got = (IF tok.role = "admin" THEN DOMAIN leads
                 ELSE IF tok.role = "business"
                 THEN {l \in DOMAIN leads : /\ tok.businessId \notin {Absent, Null}
                                            /\ leads[l].businessId = tok.businessId}
                 ELSE {l \in DOMAIN leads : leads[l].submittedBy = tok.id})

\* A customer received its own Lead and not the Lead someone else submitted.
C6_Witness ==
  /\ resp.op = "getLeads" /\ resp.status = 200
  /\ resp.caller.role = "customer"
  /\ Len(resp.list) = 1
  /\ Cardinality(DOMAIN leads) = 2

(***************************************************************************)
(* Properties of the migration script.                                     *)
(***************************************************************************)
Unlinked(us) ==
  {u \in DOMAIN us : us[u].role = "business" /\ us[u].businessId \in {Absent, Null}}

\* C7 (under SpecMig): a run's candidates are exactly the Users that at scan
\* time have role business and an absent or null businessId; each Business a
\* run creates is owned by the candidate at hand, which the scan saw unlinked
\* and which is unlinked still; a run that found no candidate creates nothing.
C7_MigrationOnlyRepairsUnlinked ==
  [][ /\ (mig.pc = "idle" /\ mig'.pc = "loop") =>
           /\ mig'.found = Cardinality(Unlinked(users))
           /\ {mig'.candidates[i].id : i \in 1..Len(mig'.candidates)} = Unlinked(users)
           /\ Len(mig'.candidates) = mig'.found
      /\ (mig.pc = "loop" /\ businesses' # businesses) =>
           /\ mig.candidates # <<>>
           /\ mig.found > 0
           /\ \A b \in (DOMAIN businesses') \ (DOMAIN businesses) :
                LET c == Head(mig.candidates)
                IN /\ businesses'[b].owner = c.id
                   /\ c.doc.role = "business" /\ c.doc.businessId \in {Absent, Null}
                   /\ c.id \in Unlinked(users)
      /\ (mig.pc = "loop" /\ mig'.pc = "loop") => DOMAIN businesses \subseteq DOMAIN businesses' ]_vars

\* A second run: the first legacy user was linked by an earlier run, and the
\* scan found only the one still lacking a businessId.
C7_Witness ==
  /\ mig.pc = "loop" /\ mig.found = 1 /\ mig.candidates # <<>>
  /\ Head(mig.candidates).doc.email = "older@x.com"
  /\ \E u \in DOMAIN users :
       /\ users[u].email = "old@x.com"
       /\ users[u].businessId \in DOMAIN businesses
       /\ businesses[users[u].businessId].name = "Old Shop"

AllLinked ==
  \A u \in DOMAIN users :
    users[u].role = "business" =>
      /\ users[u].businessId \in DOMAIN businesses
      /\ businesses[users[u].businessId].owner = u

\* C10 (under SpecRepair): whenever some User with role business has an
\* absent or null businessId, eventually every User with role business has a
\* businessId naming an existing Business whose owner is that User.
C10_RepairEventual == (Unlinked(users) # {}) ~> AllLinked

\* Every business User is linked, one of them to a second Business: the
\* first, created by the registration whose user.save threw, is an orphan.
C10_Witness ==
  /\ AllLinked
  /\ \E u \in DOMAIN users, b \in DOMAIN businesses :
       /\ users[u].role = "business"
       /\ businesses[b].owner = u
       /\ users[u].businessId # b

\* C11: a failure while processing one candidate of a migration run (the
\* Business creation or the User update that follows it) does not abort the
\* batch: every candidate of the scan gets its iteration, in order; every
\* candidate whose iteration succeeded has exactly the Business and the link a
\* failure-free run gives it, whatever failed before it; a candidate whose
\* iteration failed keeps its User document; the candidates still waiting are
\* untouched.
C11_FailureDoesNotAbortBatch ==
  mig.pc = "loop" =>
    /\ Len(mig.log) + Len(mig.candidates) = mig.found
    /\ \A i \in 1..Len(mig.log) :
         LET c == mig.log[i].c
         IN IF mig.log[i].ok
            THEN /\ users[c.id].businessId \in DOMAIN businesses
                 /\ businesses[users[c.id].businessId] = MigrationDoc(c)
                 /\ users[c.id] = [c.doc EXCEPT !.businessId = users[c.id].businessId]
            ELSE users[c.id] = c.doc
    /\ \A i \in 1..Len(mig.candidates) :
         users[mig.candidates[i].id] = mig.candidates[i].doc

\* A run of two candidates in which the first iteration failed and the second
\* one succeeded.
C11_Witness ==
  /\ mig.pc = "loop" /\ mig.found = 2 /\ Len(mig.log) = 2
  /\ ~mig.log[1].ok /\ mig.log[2].ok
  /\ users[mig.log[2].c.id].businessId \in DOMAIN businesses
  /\ LacksBusiness(users[mig.log[1].c.id])

\* C12: after an admin's DELETE /api/admin/businesses/:id answered 200, the
\* Business is gone and no User carries its id as businessId, while every
\* Product and every Lead, those of the deleted Business included, is still
\* stored unchanged.
C12_DeleteUnlinksAndKeepsChildren ==
  [][ (resp'.op = "deleteBusiness" /\ resp'.status = 200) =>
        /\ resp'.caller.role = "admin"
        /\ resp'.bid \in DOMAIN businesses
        /\ resp'.bid \notin DOMAIN businesses'
        /\ \A u \in DOMAIN users' : users'[u].businessId # resp'.bid
        /\ DOMAIN users' = DOMAIN users
        /\ products' = products
        /\ leads' = leads ]_vars

\* A Business that had an owner, a Product and a Lead has just been deleted.
C12_Witness ==
  /\ resp.op = "deleteBusiness" /\ resp.status = 200
  /\ resp.bid \notin DOMAIN businesses
  /\ \E u \in DOMAIN users : users[u] = [AccessUsers[u] EXCEPT !.businessId = Absent]
                               /\ AccessUsers[u].businessId = resp.bid
  /\ \E p \in DOMAIN products : products[p].businessId = resp.bid
  /\ \E l \in DOMAIN leads : leads[l].businessId = resp.bid

\* C13: User e-mail is unique under every interleaving of register and seed
\* requests whose existence check and User creation are separate store
\* operations: no two User documents share an e-mail, and no User is created
\* with an e-mail that a stored User already has.
C13_EmailUnique ==
  /\ [](\A u, v \in DOMAIN users : users[u].email = users[v].email => u = v)
  /\ [][\A u \in DOMAIN users' \ DOMAIN users :
          FindUserByEmail(users, users'[u].email) = {}]_vars

\* C14: when the migration's scan and writes interleave with the steps of
\* live business registrations and no store write fails, no two Businesses
\* have the same owner, and once nothing is in flight every Business is the
\* one its owner's businessId points to.
C14_OneBusinessPerOwner ==
  /\ \A a, b \in DOMAIN businesses : businesses[a].owner = businesses[b].owner => a = b
  /\ (mig.pc = "idle" /\ pending = NoPending) =>
       \A b \in DOMAIN businesses :
         /\ businesses[b].owner \in DOMAIN users
         /\ users[businesses[b].owner].businessId = b

\* C15: a business user creates, updates or deletes a Product only under the
\* businessId its User record holds at that moment; so once an admin has
\* deleted its Business and unlinked it, a token issued before the deletion
\* no longer lets it change Products under the deleted Business's id.
C15_AuthorizationFollowsUserRecord ==
  [][ ( /\ resp'.op \in {"createProduct", "updateProduct", "deleteProduct"}
        /\ resp'.status = 200
        /\ resp'.caller.role = "business" ) =>
        LET target == IF resp'.op = "createProduct"
                      THEN products'[resp'.pid].businessId
                      ELSE products[resp'.pid].businessId
        IN users[resp'.caller.id].businessId = target ]_vars

====
